---- MODULE Spec2Model ----
(***************************************************************************)
(* Quote resolver of the TeamJans portfolio tracker (src/app.py): the      *)
(* in-memory price cache, the rate-limit cooldown, the last_quotes table   *)
(* and the two resolvers get_stock_price and fetch_quotes_batch, as a      *)
(* state machine whose flows are request handlers sharing that state.      *)
(***************************************************************************)
EXTENDS Integers, Sequences, FiniteSets, TLC

\* ------------------------------------------------------------------ bounds
MaxTime == 720        \* the clock stops advancing here
MaxPrice == 1         \* provider prices are 1..MaxPrice
MaxBatch == 2         \* longest ticker list handed to fetch_quotes_batch
MaxClock == 300       \* the clock of the cooldown study stops here
MaxHoldings == 2      \* most open holdings of the portfolio that is valued
MaxQty == 2           \* quantities are 1..MaxQty
MaxCost == 2          \* purchase prices are 1..MaxCost

\* ------------------------------------------------------- program constants
PRICE_TTL_SECONDS == 600
RATE_LIMIT_COOLDOWN == 120

\* ------------------------------------------------------------------ values
Tickers == {"BHP.AX", "CBA.AX"}
Flows == {"f1", "f2"}

\* Python's None as the value of one field of a triple
None == -1
\* Python's None where a whole entry, row, dict value or result is missing
Absent == <<>>
NoneTriple == <<None, None, None>>

\* The (price, previous close, change) payloads a provider reports for a
\* symbol: no field, one field alone, or all three; a change of 0 is a number,
\* not a missing field.
ProviderQuotes ==
  {NoneTriple, <<None, 1, None>>, <<None, None, 0>>}
    \cup {<<p, None, None>> : p \in 1..MaxPrice}
    \cup {<<p, 1, 0>> : p \in 1..MaxPrice}

\* What a provider's body holds for one symbol: nothing, or one payload.
Payloads == {<<>>} \cup {<<q>> : q \in ProviderQuotes}

Providers == {"primary", "secondary", "public"}

\* What one HTTP GET to a provider can end in.
OutcomeKinds == {"ok", "429", "http", "net", "malformed"}

\* The ticker lists handed to fetch_quotes_batch: the open holdings of a
\* portfolio, each ticker once.
TickerLists ==
  {s \in UNION {[1..n -> Tickers] : n \in 0..MaxBatch} :
     \A j, k \in DOMAIN s : j # k => s[j] # s[k]}

SeqSet(s) == {s[k] : k \in 1..Len(s)}

VARIABLES
  now,               \* time.time()
  PRICE_CACHE,       \* ticker -> <<timestamp, triple>>, Absent without an entry
  RATE_LIMIT_UNTIL,  \* the cooldown deadline
  last_quotes,       \* the last_quotes table: ticker -> triple, Absent without a row
  RAPIDAPI_KEY,      \* whether os.environ holds RAPIDAPI_KEY
  fl                 \* per request flow: the running call's position and locals

vars == <<now, PRICE_CACHE, RATE_LIMIT_UNTIL, last_quotes, RAPIDAPI_KEY, fl>>

\* ------------------------------------------------------------ cache, cooldown
\* (variant: an entry aged exactly the TTL is stale)
cache_get_strict(ticker) ==
  LET entry == PRICE_CACHE[ticker] IN
    IF entry = Absent THEN Absent
    ELSE IF now - entry[1] < PRICE_TTL_SECONDS THEN entry[2]
    ELSE Absent

\* (variant: entries never expire)
cache_get_stale(ticker) ==
  LET entry == PRICE_CACHE[ticker] IN
    IF entry = Absent THEN Absent ELSE entry[2]

\* (variant: the comparison is the wrong way round)
cache_get_flipped(ticker) ==
  LET entry == PRICE_CACHE[ticker] IN
    IF entry = Absent THEN Absent
    ELSE IF now - entry[1] >= PRICE_TTL_SECONDS THEN entry[2]
    ELSE Absent

cache_get(ticker) ==
  LET entry == PRICE_CACHE[ticker] IN
    IF entry = Absent THEN Absent
    ELSE IF now - entry[1] <= PRICE_TTL_SECONDS THEN entry[2]
    ELSE Absent

\* (variant: an existing entry is kept)
cache_set_keep(ticker, triple) ==
  IF PRICE_CACHE[ticker] # Absent THEN PRICE_CACHE
  ELSE [PRICE_CACHE EXCEPT ![ticker] = <<now, triple>>]

cache_set(ticker, triple) ==
  [PRICE_CACHE EXCEPT ![ticker] = <<now, triple>>]

\* (variant: the deadline itself still counts as cooling down)
rate_limited_inclusive == now <= RATE_LIMIT_UNTIL

rate_limited == now < RATE_LIMIT_UNTIL

\* (variant: a window that is running is not extended)
set_rate_limit_cooldown_once ==
  IF now < RATE_LIMIT_UNTIL THEN RATE_LIMIT_UNTIL ELSE now + RATE_LIMIT_COOLDOWN

set_rate_limit_cooldown == now + RATE_LIMIT_COOLDOWN

\* ------------------------------------------------------------------- store
db_get_quote(ticker) == last_quotes[ticker]

\* (variant: the upsert keeps the old value of a column the new triple lacks)
db_set_quote_patch(ticker, triple) ==
  [last_quotes EXCEPT ![ticker] =
     IF @ = Absent THEN triple
     ELSE [k \in 1..3 |-> IF triple[k] # None THEN triple[k] ELSE @[k]]]

db_set_quote(ticker, triple) == [last_quotes EXCEPT ![ticker] = triple]

\* -------------------------------------------------------------- flow records
NoMap == [t \in Tickers |-> Absent]

\* pc: where the call stands; op: which resolver runs; calls: the HTTP GETs
\* the running call has issued; sent: the symbols of the batch GET; http: how
\* the call's latest GET ended ("none" before the first); holdings, cash, rows
\* and summary belong to the valuation of a portfolio; the other fields are
\* the locals of the two resolvers.
IdleFlow ==
  [pc |-> "idle", op |-> "none", ticker |-> "", tickers |-> <<>>, missing |-> <<>>,
   cached |-> Absent, triple |-> Absent, by_symbol |-> NoMap,
   i |-> 0, calls |-> 0, sent |-> <<>>, http |-> "none",
   result |-> Absent, bresult |-> NoMap, status |-> "idle",
   holdings |-> <<>>, cash |-> None, rows |-> <<>>, summary |-> Absent]

Init ==
  /\ now = 0
  /\ PRICE_CACHE = [t \in Tickers |-> Absent]
  /\ RATE_LIMIT_UNTIL = 0
  /\ last_quotes = [t \in Tickers |-> Absent]
  /\ RAPIDAPI_KEY \in BOOLEAN
  /\ fl = [f \in Flows |-> IdleFlow]

Free(f) == fl[f].pc \in {"idle", "done"}

\* The flow after its call ended: the locals are gone, what the caller sees
\* stays (the arguments, and the value returned or the exception).
Ended(me, status, result, bresult) ==
  [IdleFlow EXCEPT !.pc = "done", !.op = me.op, !.ticker = me.ticker,
                   !.tickers = me.tickers, !.http = me.http, !.status = status,
                   !.result = result, !.bresult = bresult]

\* ------------------------------------------------------------- try / except
\* The except clause of the resolvers' try blocks that catches an outcome:
\* raise_for_status() raises requests.HTTPError on a 4xx/5xx status; a
\* connection error, a timeout and a body that does not parse or does not
\* have the expected shape raise other exceptions.
\* (variant: the generic clause catches requests' own exceptions only)
ExceptClauseNarrow(kind) ==
  CASE kind \in {"429", "http"} -> "HTTPError"
    [] kind = "net" -> "Exception"
    [] OTHER -> "none"

ExceptClause(kind) ==
  CASE kind \in {"429", "http"} -> "HTTPError"
    [] kind \in {"net", "malformed"} -> "Exception"
    [] OTHER -> "none"

\* (variant: every HTTP error status counts as a rate limit)
Is429Any(kind) == ExceptClause(kind) = "HTTPError"

\* getattr(e.response, "status_code", None) == 429 inside except HTTPError
Is429(kind) == ExceptClause(kind) = "HTTPError" /\ kind = "429"

\* price is not None or prev is not None or change is not None
HasField(triple) ==
  triple[1] # None \/ triple[2] # None \/ triple[3] # None

\* ------------------------------------------------------------ get_stock_price
\* Lines 288-301: the cache lookup, the cooldown gate and the choice of the
\* first provider. [pc, result] of the call after them.
\* (variant: the cooldown gate is missing)
GspGateNoCooldown(cached, limited, key, dbq) ==
  IF cached # Absent THEN [pc |-> "done", result |-> cached]
  ELSE IF key THEN [pc |-> "primary", result |-> Absent]
  ELSE [pc |-> "public", result |-> Absent]

GspGate(cached, limited, key, dbq) ==
  IF cached # Absent THEN [pc |-> "done", result |-> cached]
  ELSE IF limited THEN
    [pc |-> "done", result |-> IF dbq # Absent THEN dbq ELSE NoneTriple]
  ELSE IF key THEN [pc |-> "primary", result |-> Absent]
  ELSE [pc |-> "public", result |-> Absent]

\* (variant: the summary endpoint is left out)
NextProviderSkip(provider) ==
  CASE provider \in {"primary", "secondary"} -> "public"
    [] OTHER -> "return"

\* Where the code goes when a provider attempt neither returns nor raises.
NextProvider(provider) ==
  CASE provider = "primary" -> "secondary"
    [] provider = "secondary" -> "public"
    [] OTHER -> "return"

\* The triple the code takes from a 200 answer, Absent when it takes none:
\* the first result with a field (lines 316-323), the raw fields of the price
\* object when one is there (lines 361-366), the first result whatever it
\* holds (lines 408-415).
Take(provider, payload) ==
  CASE provider = "primary" ->
         IF payload # <<>> /\ HasField(payload[1]) THEN payload[1] ELSE Absent
    [] provider = "secondary" ->
         IF HasField(IF payload # <<>> THEN payload[1] ELSE NoneTriple)
         THEN payload[1] ELSE Absent
    [] OTHER -> IF payload # <<>> THEN payload[1] ELSE Absent

\* One provider attempt of get_stock_price, try and except blocks together
\* (lines 303-349, 352-392, 395-443). act: "accept" (go on to _cache_set with
\* value), "return" (return value), "next" (fall through to the next
\* provider) or "raise"; cooldown: whether _set_rate_limit_cooldown() ran.
Attempt(provider, kind, payload, cached, dbq) ==
  IF kind = "ok" THEN
    IF Take(provider, payload) # Absent
    THEN [act |-> "accept", value |-> Take(provider, payload), cooldown |-> FALSE]
    ELSE IF NextProvider(provider) = "return"
    THEN [act |-> "return", value |-> NoneTriple, cooldown |-> FALSE]
    ELSE [act |-> "next", value |-> Absent, cooldown |-> FALSE]
  ELSE IF ExceptClause(kind) = "none"
  THEN [act |-> "raise", value |-> Absent, cooldown |-> FALSE]
  ELSE IF cached # Absent
  THEN [act |-> "return", value |-> cached, cooldown |-> Is429(kind)]
  ELSE IF dbq # Absent
  THEN [act |-> "return", value |-> dbq, cooldown |-> Is429(kind)]
  ELSE IF NextProvider(provider) = "return"
  THEN [act |-> "return", value |-> NoneTriple, cooldown |-> Is429(kind)]
  ELSE [act |-> "next", value |-> Absent, cooldown |-> Is429(kind)]

GspCall(f, ticker) ==
  /\ Free(f)
  /\ LET cached == cache_get(ticker)
         g == GspGate(cached, rate_limited, RAPIDAPI_KEY, db_get_quote(ticker))
         c == [IdleFlow EXCEPT !.op = "gsp", !.ticker = ticker, !.cached = cached,
                               !.pc = g.pc, !.status = "running"]
     IN fl' = [fl EXCEPT ![f] =
          IF g.pc = "done" THEN Ended(c, "returned", g.result, NoMap) ELSE c]
  /\ UNCHANGED <<now, PRICE_CACHE, RATE_LIMIT_UNTIL, last_quotes, RAPIDAPI_KEY>>

\* One HTTP GET of get_stock_price and what the code does with its outcome.
GspAttempt(f, provider, kinds, payloads) ==
  /\ fl[f].pc = provider
  /\ \E kind \in kinds :
     \E payload \in (IF kind = "ok" THEN payloads ELSE {<<>>}) :
       LET me == [fl[f] EXCEPT !.calls = @ + 1, !.http = kind]
           o == Attempt(provider, kind, payload, me.cached, db_get_quote(me.ticker))
       IN /\ RATE_LIMIT_UNTIL' =
               IF o.cooldown THEN set_rate_limit_cooldown ELSE RATE_LIMIT_UNTIL
          /\ fl' = [fl EXCEPT ![f] =
               CASE o.act = "accept" -> [me EXCEPT !.pc = "cache_set", !.triple = o.value]
                 [] o.act = "return" -> Ended(me, "returned", o.value, NoMap)
                 [] o.act = "next" -> [me EXCEPT !.pc = NextProvider(provider)]
                 [] OTHER -> Ended(me, "raised", Absent, NoMap)]
  /\ UNCHANGED <<now, PRICE_CACHE, last_quotes, RAPIDAPI_KEY>>

\* market/v2/get-quotes (lines 303-349)
GspPrimary(f) == GspAttempt(f, "primary", OutcomeKinds, Payloads)

\* stock/v2/get-summary (lines 351-392)
GspSecondary(f) == GspAttempt(f, "secondary", OutcomeKinds, Payloads)

\* The public Yahoo endpoint (lines 394-443)
GspPublic(f) == GspAttempt(f, "public", OutcomeKinds, Payloads)

\* _cache_set(ticker, triple) of an accepted answer (lines 324, 367, 416).
GspCacheSet(f) ==
  /\ fl[f].pc = "cache_set"
  /\ PRICE_CACHE' = cache_set(fl[f].ticker, fl[f].triple)
  /\ fl' = [fl EXCEPT ![f].pc = "db_set"]
  /\ UNCHANGED <<now, RATE_LIMIT_UNTIL, last_quotes, RAPIDAPI_KEY>>

\* _db_set_quote(ticker, triple); return triple (lines 325-326, 368-369, 417-418).
GspDbSet(f) ==
  /\ fl[f].pc = "db_set"
  /\ last_quotes' = db_set_quote(fl[f].ticker, fl[f].triple)
  /\ fl' = [fl EXCEPT ![f] = Ended(fl[f], "returned", fl[f].triple, NoMap)]
  /\ UNCHANGED <<now, PRICE_CACHE, RATE_LIMIT_UNTIL, RAPIDAPI_KEY>>

\* --------------------------------------------------------- fetch_quotes_batch
\* The store fallback of lines 211-215 and 220-223: a missing ticker gets a
\* result only when it has a row.
FillFromDb(result, missing) ==
  [t \in Tickers |->
     IF t \in SeqSet(missing) /\ db_get_quote(t) # Absent THEN db_get_quote(t)
     ELSE result[t]]

\* (variant: a ticker without a row gets no result, as in the early returns)
FillFromDbOrSkip(result, missing) ==
  [t \in Tickers |->
     IF t \in SeqSet(missing) /\ result[t] = Absent /\ db_get_quote(t) # Absent
     THEN db_get_quote(t)
     ELSE result[t]]

\* The store fallback of the except blocks (lines 260-263, 266-269, 272-275).
FillFromDbOrNone(result, missing) ==
  [t \in Tickers |->
     IF t \in SeqSet(missing) /\ result[t] = Absent
     THEN (IF db_get_quote(t) # Absent THEN db_get_quote(t) ELSE NoneTriple)
     ELSE result[t]]

\* The tickers of `tickers` without a fresh cache entry, in order (lines 201-207).
RECURSIVE Missing(_)
Missing(tickers) ==
  IF tickers = <<>> THEN <<>>
  ELSE IF cache_get(Head(tickers)) # Absent THEN Missing(Tail(tickers))
  ELSE <<Head(tickers)>> \o Missing(Tail(tickers))

\* (variant: the batch does not look at the cooldown)
BatchFetchesNoGate(missing, limited, key) == missing # <<>> /\ key

\* Whether the batch goes on to its GET (lines 210 and 218).
BatchFetches(missing, limited, key) == missing # <<>> /\ ~limited /\ key

\* Lines 198-224: results from the cache, the list of missing tickers, and the
\* early returns when nothing is missing, the cooldown is active or there is
\* no API key.
BatchCall(f, tickers) ==
  /\ Free(f)
  /\ LET missing == Missing(tickers)
         result == [t \in Tickers |->
                      IF t \in SeqSet(tickers) THEN cache_get(t) ELSE Absent]
         c == [IdleFlow EXCEPT !.op = "batch", !.tickers = tickers,
                               !.missing = missing, !.status = "running"]
     IN fl' = [fl EXCEPT ![f] =
          IF BatchFetches(missing, rate_limited, RAPIDAPI_KEY)
          THEN [c EXCEPT !.pc = "b_fetch", !.bresult = result]
          ELSE Ended(c, "returned", Absent, FillFromDb(result, missing))]
  /\ UNCHANGED <<now, PRICE_CACHE, RATE_LIMIT_UNTIL, last_quotes, RAPIDAPI_KEY>>

\* The position after the loop body of lines 242-254 ran for missing[i].
BatchAdvance(me) ==
  IF me.i >= Len(me.missing)
  THEN Ended(me, "returned", Absent, me.bresult)
  ELSE [me EXCEPT !.pc = "b_item", !.i = @ + 1]

\* The one GET of lines 226-240 and the except blocks of lines 256-275.
\* by_symbol maps each symbol of the response to its quote.
BatchFetch(f) ==
  /\ fl[f].pc = "b_fetch"
  /\ \E kind \in OutcomeKinds :
     LET me == [fl[f] EXCEPT !.calls = @ + 1, !.sent = fl[f].missing,
                             !.http = kind] IN
       IF kind = "ok" THEN
         \E by_symbol \in [Tickers -> ProviderQuotes \cup {Absent}] :
           /\ \A t \in Tickers \ SeqSet(me.missing) : by_symbol[t] = Absent
           /\ fl' = [fl EXCEPT ![f] = [me EXCEPT !.by_symbol = by_symbol,
                                                 !.pc = "b_item", !.i = 1]]
           /\ UNCHANGED RATE_LIMIT_UNTIL
       ELSE
         /\ RATE_LIMIT_UNTIL' =
              IF Is429(kind) THEN set_rate_limit_cooldown ELSE RATE_LIMIT_UNTIL
         /\ fl' = [fl EXCEPT ![f] =
              IF ExceptClause(kind) = "none"
              THEN Ended(me, "raised", Absent, NoMap)
              ELSE Ended(me, "returned", Absent,
                         FillFromDbOrNone(me.bresult, me.missing))]
  /\ UNCHANGED <<now, PRICE_CACHE, last_quotes, RAPIDAPI_KEY>>

\* `if q:` of line 244: the quote of the response the loop body writes for a
\* ticker, Absent when it takes the else branch.
BatchTake(q) == q

\* The result of the else branch (lines 253-254).
DbOrNone(dbq) == IF dbq # Absent THEN dbq ELSE NoneTriple

\* One turn of the loop of lines 242-254 up to _cache_set: a ticker the
\* response holds is cached; any other gets the stored quote or the
\* all-None triple.
BatchItem(f) ==
  /\ fl[f].pc = "b_item"
  /\ LET me == fl[f]
         t == me.missing[me.i]
         q == BatchTake(me.by_symbol[t])
     IN IF q # Absent THEN
          /\ PRICE_CACHE' = cache_set(t, q)
          /\ fl' = [fl EXCEPT ![f] = [me EXCEPT !.triple = q, !.pc = "b_db_set"]]
        ELSE
          /\ fl' = [fl EXCEPT ![f] =
               BatchAdvance([me EXCEPT !.bresult[t] = DbOrNone(db_get_quote(t))])]
          /\ UNCHANGED PRICE_CACHE
  /\ UNCHANGED <<now, RATE_LIMIT_UNTIL, last_quotes, RAPIDAPI_KEY>>

\* Lines 250-251: _db_set_quote(t, triple); result[t] = triple.
BatchDbSet(f) ==
  /\ fl[f].pc = "b_db_set"
  /\ LET me == fl[f]
         t == me.missing[me.i]
     IN /\ last_quotes' = db_set_quote(t, me.triple)
        /\ fl' = [fl EXCEPT ![f] = BatchAdvance(
               [me EXCEPT !.bresult[t] = me.triple, !.triple = Absent])]
  /\ UNCHANGED <<now, PRICE_CACHE, RATE_LIMIT_UNTIL, RAPIDAPI_KEY>>

\* ------------------------------------------------- the resolvers as functions
\* What provider answers a response stands for: a kind and, for a 200, the
\* payload it holds for the ticker.
Responses ==
  {[kind |-> "ok", payload |-> p] : p \in Payloads}
    \cup {[kind |-> k, payload |-> <<>>] : k \in OutcomeKinds \ {"ok"}}

\* What get_stock_price(ticker) returns when it runs alone from the current
\* state and its providers answer r1, r2, r3 in turn (lines 283-443); Absent
\* when it raises.
GspWould(ticker, r1, r2, r3) ==
  LET cached == cache_get(ticker)
      dbq == db_get_quote(ticker)
      g == GspGate(cached, rate_limited, RAPIDAPI_KEY, dbq)
      o1 == Attempt("primary", r1.kind, r1.payload, cached, dbq)
      o2 == Attempt("secondary", r2.kind, r2.payload, cached, dbq)
      o3 == Attempt("public", r3.kind, r3.payload, cached, dbq)
  IN IF g.pc = "done" THEN g.result
     ELSE IF g.pc = "primary" /\ o1.act # "next" THEN o1.value
     ELSE IF g.pc = "primary" /\ o2.act # "next" THEN o2.value
     ELSE o3.value

\* What fetch_quotes_batch returns for a missing ticker when its GET is
\* answered by r, whose payload is what the response holds for the ticker
\* (lines 239-275); Absent when it raises.
BatchWould(ticker, r) ==
  LET q == IF r.payload # <<>> THEN r.payload[1] ELSE Absent IN
  IF r.kind = "ok" THEN
    (IF BatchTake(q) # Absent THEN q ELSE DbOrNone(db_get_quote(ticker)))
  ELSE IF ExceptClause(r.kind) = "none" THEN Absent
  ELSE DbOrNone(db_get_quote(ticker))

\* ----------------------------------------------------------------- valuation
\* Amounts are whole numbers of the smallest currency unit. A field of a row
\* that may be None is <<>> for None and <<v>> for the number v, because a
\* profit can be negative.
Some(v) == <<v>>

\* quotes_map.get(ticker, (None, None, None)) (lines 478, 568)
quotes_get(quotes_map, ticker) ==
  IF quotes_map[ticker] = Absent THEN NoneTriple ELSE quotes_map[ticker]

\* (variant: a price of 0 counts as missing)
effective_price_truthy(current_price, prev_close, purchase_price) ==
  IF current_price # None /\ current_price # 0 THEN current_price
  ELSE IF prev_close # None /\ prev_close # 0 THEN prev_close
  ELSE purchase_price

\* Lines 480-485 of calculate_portfolio_summary.
effective_price(current_price, prev_close, purchase_price) ==
  IF current_price # None THEN current_price
  ELSE IF prev_close # None THEN prev_close
  ELSE purchase_price

\* Lines 570-575 of view_portfolio: the same choice, written again.
view_effective_price(current_price, prev_close, purchase_price) ==
  IF current_price # None THEN current_price
  ELSE IF prev_close # None THEN prev_close
  ELSE purchase_price

\* (variant: a change of 0 counts as missing)
profit_daily_truthy(current_price, prev_close, change, qty) ==
  IF change # None /\ change # 0 THEN Some(change * qty)
  ELSE IF current_price # None /\ prev_close # None
  THEN Some((current_price - prev_close) * qty)
  ELSE Absent

\* metrics["profit_daily"] of view_portfolio (lines 589-595).
profit_daily(current_price, prev_close, change, qty) ==
  IF change # None THEN Some(change * qty)
  ELSE IF current_price # None /\ prev_close # None
  THEN Some((current_price - prev_close) * qty)
  ELSE Absent

\* What lines 491-494 of calculate_portfolio_summary add to daily_profit.
daily_profit_term(current_price, prev_close, change, quantity) ==
  IF change # None THEN change * quantity
  ELSE IF current_price # None /\ prev_close # None
  THEN (current_price - prev_close) * quantity
  ELSE 0

\* The metrics of one holding (lines 568-595).
ViewMetrics(h, quotes_map) ==
  LET q == quotes_get(quotes_map, h.ticker)
      eff == view_effective_price(q[1], q[2], h.purchase_price)
  IN [ticker |-> h.ticker, quantity |-> h.quantity,
      purchase_price |-> h.purchase_price,
      current_price |-> q[1], prev_close |-> q[2],
      value |-> eff * h.quantity,
      profit_total |-> (eff - h.purchase_price) * h.quantity,
      profit_daily |-> profit_daily(q[1], q[2], q[3], h.quantity)]

\* The loop of view_portfolio over the open holdings (lines 566-597); after
\* the last one the handler goes on to calculate_portfolio_summary (line 599).
ViewRow(f) ==
  /\ fl[f].pc = "v_row"
  /\ LET me == fl[f] IN
     fl' = [fl EXCEPT ![f] =
       IF me.i > Len(me.holdings)
       THEN [me EXCEPT !.pc = "s_row", !.i = 1,
                       !.summary = [positions_value |-> 0, total_profit |-> 0,
                                    daily_profit |-> 0]]
       ELSE [me EXCEPT !.rows = Append(@, ViewMetrics(me.holdings[me.i], me.bresult)),
                       !.i = @ + 1]]
  /\ UNCHANGED <<now, PRICE_CACHE, RATE_LIMIT_UNTIL, last_quotes, RAPIDAPI_KEY>>

\* One turn of the loop of calculate_portfolio_summary (lines 474-494), or
\* after the last holding the totals of lines 496-508.
SummaryRow(f) ==
  /\ fl[f].pc = "s_row"
  /\ LET me == fl[f] IN
     fl' = [fl EXCEPT ![f] =
       IF me.i > Len(me.holdings)
       THEN LET cash_float == IF me.cash # None THEN me.cash ELSE 0 IN
            [me EXCEPT !.pc = "done", !.status = "returned",
               !.summary = [cash_balance |-> cash_float,
                            positions_value |-> me.summary.positions_value,
                            net_worth |-> cash_float + me.summary.positions_value,
                            total_profit |-> me.summary.total_profit,
                            daily_profit |-> me.summary.daily_profit]]
       ELSE LET h == me.holdings[me.i]
                q == quotes_get(me.bresult, h.ticker)
                eff == effective_price(q[1], q[2], h.purchase_price)
            IN [me EXCEPT !.i = @ + 1,
                  !.summary = [positions_value |-> @.positions_value + eff * h.quantity,
                               total_profit |->
                                 @.total_profit + (eff - h.purchase_price) * h.quantity,
                               daily_profit |->
                                 @.daily_profit +
                                   daily_profit_term(q[1], q[2], q[3], h.quantity)]]]
  /\ UNCHANGED <<now, PRICE_CACHE, RATE_LIMIT_UNTIL, last_quotes, RAPIDAPI_KEY>>

\* ----------------------------------------------------------------- restart
\* The process restarts: the module-level cache and deadline start over
\* (lines 108, 115), the table stays.
\* (variant: the table is created anew at start-up)
RestartLosesStore ==
  /\ PRICE_CACHE' = [t \in Tickers |-> Absent]
  /\ RATE_LIMIT_UNTIL' = 0
  /\ last_quotes' = [t \in Tickers |-> Absent]
  /\ fl' = [f \in Flows |-> IdleFlow]
  /\ UNCHANGED <<now, RAPIDAPI_KEY>>

Restart ==
  /\ PRICE_CACHE' = [t \in Tickers |-> Absent]
  /\ RATE_LIMIT_UNTIL' = 0
  /\ fl' = [f \in Flows |-> IdleFlow]
  /\ UNCHANGED <<now, last_quotes, RAPIDAPI_KEY>>

\* ------------------------------------------------------------------- clock
\* The clock is read between calls: a call lasts seconds (each GET times out
\* after 8 s, lines 234, 311, 356, 402), the two windows last minutes.
Quiet == \A f \in Flows : Free(f)

\* Time passes until the cooldown window that started now is over.
WaitCooldown ==
  /\ Quiet
  /\ rate_limited
  /\ now + RATE_LIMIT_COOLDOWN <= MaxTime
  /\ now' = now + RATE_LIMIT_COOLDOWN
  /\ UNCHANGED <<PRICE_CACHE, RATE_LIMIT_UNTIL, last_quotes, RAPIDAPI_KEY, fl>>

\* Time passes for one cache lifetime.
WaitTtl ==
  /\ Quiet
  /\ now + PRICE_TTL_SECONDS <= MaxTime
  /\ now' = now + PRICE_TTL_SECONDS
  /\ UNCHANGED <<PRICE_CACHE, RATE_LIMIT_UNTIL, last_quotes, RAPIDAPI_KEY, fl>>

\* -------------------------------------------------------------------- specs
\* One request at a time: every call runs to its end before the next starts.
Next ==
  \/ \E t \in Tickers : GspCall("f1", t)
  \/ GspPrimary("f1")
  \/ GspSecondary("f1")
  \/ GspPublic("f1")
  \/ GspCacheSet("f1")
  \/ GspDbSet("f1")
  \/ \E ts \in TickerLists : BatchCall("f1", ts)
  \/ BatchFetch("f1")
  \/ BatchItem("f1")
  \/ BatchDbSet("f1")
  \/ Restart
  \/ WaitCooldown
  \/ WaitTtl

Spec == Init /\ [][Next]_vars

\* Two requests served at once, each a get_stock_price call, with the API key
\* configured.
InitConc == Init /\ RAPIDAPI_KEY

ConcTickers == Tickers
ConcKinds == {"ok", "429"}
ConcPayloads == {<<>>, <<<<1, None, None>>>>, <<<<1, 1, 0>>>>}

NextConc ==
  \/ \E f \in Flows, t \in ConcTickers : GspCall(f, t)
  \/ \E f \in Flows : GspAttempt(f, "primary", ConcKinds, ConcPayloads)
  \/ \E f \in Flows : GspAttempt(f, "secondary", ConcKinds, ConcPayloads)
  \/ \E f \in Flows : GspAttempt(f, "public", ConcKinds, ConcPayloads)
  \/ \E f \in Flows : GspCacheSet(f)
  \/ \E f \in Flows : GspDbSet(f)
  \/ WaitCooldown
  \/ WaitTtl

SpecConc == InitConc /\ [][NextConc]_vars

\* Two requests for one ticker served at the same instant: every GET is
\* answered with a 200 and any of the payloads, and the two calls' steps
\* interleave freely.
RaceTicker == "BHP.AX"

NextRace ==
  \/ \E f \in Flows : GspCall(f, RaceTicker)
  \/ \E f \in Flows : GspAttempt(f, "primary", {"ok"}, Payloads)
  \/ \E f \in Flows : GspAttempt(f, "secondary", {"ok"}, Payloads)
  \/ \E f \in Flows : GspAttempt(f, "public", {"ok"}, Payloads)
  \/ \E f \in Flows : GspCacheSet(f)
  \/ \E f \in Flows : GspDbSet(f)

SpecRace == Init /\ [][NextRace]_vars

\* The cooldown seen at a finer grain, within one process lifetime: the clock
\* advances by half a cooldown window at any moment, also while a call is
\* under way, so that a GET can be answered when a window is half over.
Tick ==
  /\ now + RATE_LIMIT_COOLDOWN \div 2 <= MaxClock
  /\ now' = now + RATE_LIMIT_COOLDOWN \div 2
  /\ UNCHANGED <<PRICE_CACHE, RATE_LIMIT_UNTIL, last_quotes, RAPIDAPI_KEY, fl>>

NextClock ==
  \/ \E t \in Tickers : GspCall("f1", t)
  \/ GspPrimary("f1")
  \/ GspSecondary("f1")
  \/ GspPublic("f1")
  \/ GspCacheSet("f1")
  \/ GspDbSet("f1")
  \/ \E ts \in TickerLists : BatchCall("f1", ts)
  \/ BatchFetch("f1")
  \/ BatchItem("f1")
  \/ BatchDbSet("f1")
  \/ Tick

SpecClock == Init /\ [][NextClock]_vars

\* The valuation of one portfolio page: view_portfolio from the point where
\* fetch_quotes_batch has returned quotes_map for the open holdings.
\* A field of a quote fetch_quotes_batch hands over: None or an amount.
ViewFields == {None} \cup (0..MaxPrice)

\* The rows of the holdings table with sold = 0: ticker, quantity,
\* purchase_price.
Holdings ==
  [ticker : Tickers, quantity : 1..MaxQty, purchase_price : 1..MaxCost]

HoldingLists == UNION {[1..n -> Holdings] : n \in 0..MaxHoldings}

\* quotes_map for the tickers of the holdings: a triple, or no key at all.
QuoteMaps(hs) ==
  {m \in [Tickers -> (ViewFields \X ViewFields \X ViewFields) \cup {Absent}] :
     \A t \in Tickers : t \notin {hs[k].ticker : k \in 1..Len(hs)} => m[t] = Absent}

\* cash_balance of the portfolio row: NULL or an amount.
CashValues == {None, 1}

InitView ==
  /\ now = 0
  /\ PRICE_CACHE = [t \in Tickers |-> Absent]
  /\ RATE_LIMIT_UNTIL = 0
  /\ last_quotes = [t \in Tickers |-> Absent]
  /\ RAPIDAPI_KEY = TRUE
  /\ \E hs \in HoldingLists : \E qm \in QuoteMaps(hs) : \E cash \in CashValues :
       fl = [f \in Flows |->
               IF f = "f1"
               THEN [IdleFlow EXCEPT !.pc = "v_row", !.op = "view", !.i = 1,
                                     !.status = "running", !.holdings = hs,
                                     !.bresult = qm, !.cash = cash]
               ELSE IdleFlow]

NextView ==
  \/ ViewRow("f1")
  \/ SummaryRow("f1")

SpecView == InitView /\ [][NextView]_vars

\* ================================================================== claims
\* What the claims say in the model's terms.
IsTriple(x) ==
  /\ x # Absent
  /\ Len(x) = 3
  /\ \A k \in 1..3 : x[k] = None \/ x[k] \in Nat

\* Ticker t has a cache entry no older than the TTL.
Fresh(t) ==
  PRICE_CACHE[t] # Absent /\ now - PRICE_CACHE[t][1] <= PRICE_TTL_SECONDS

\* The store quote of t if a row exists, else the fully-absent triple.
StoreOrAbsent(t) ==
  IF last_quotes[t] # Absent THEN last_quotes[t] ELSE NoneTriple

CallPcs == Providers \cup {"b_fetch"}

\* This step of flow f is an HTTP GET to a provider (a restart, which ends the
\* flow where it stands, is none).
IssuesCall(f) == fl[f].pc \in CallPcs /\ fl'[f] # fl[f] /\ fl'[f].pc # "idle"

\* This step starts a get_stock_price / fetch_quotes_batch call of flow f
\* (its arguments are in the flow record afterwards).
StartsGsp(f) == Free(f) /\ fl'[f] # fl[f] /\ fl'[f].op = "gsp"
StartsBatch(f) == Free(f) /\ fl'[f] # fl[f] /\ fl'[f].op = "batch"

\* The steps flow f can take while its call runs.
FlowStep(f) ==
  \/ GspPrimary(f) \/ GspSecondary(f) \/ GspPublic(f)
  \/ GspCacheSet(f) \/ GspDbSet(f)
  \/ BatchFetch(f) \/ BatchItem(f) \/ BatchDbSet(f)

C2_Original ==
  [][\A f \in Flows :
       (StartsGsp(f) /\ rate_limited) =>
         /\ fl'[f].pc = "done" /\ fl'[f].status = "returned"
         /\ fl'[f].result = StoreOrAbsent(fl'[f].ticker)]_vars

\* C2 amended: a get_stock_price call started for any ticker while the
\* cooldown is active issues no provider call and returns the fresh cache
\* entry of its ticker if there is one, otherwise the store quote if a row
\* exists, else the fully-absent triple.
C2_CooldownNoCalls ==
  [][\A f \in Flows :
       (StartsGsp(f) /\ rate_limited) =>
         LET t == fl'[f].ticker IN
         /\ fl'[f].pc = "done" /\ fl'[f].status = "returned"
         /\ fl'[f].result =
              IF Fresh(t) THEN PRICE_CACHE[t][2] ELSE StoreOrAbsent(t)]_vars

\* A call answered from the store during the cooldown, for a ticker other than
\* the one whose call is still running after it met the 429.
C2_Witness ==
  \E f, g \in Flows :
    /\ rate_limited
    /\ fl[f].pc = "done" /\ fl[f].op = "gsp" /\ ~Fresh(fl[f].ticker)
    /\ last_quotes[fl[f].ticker] # Absent
    /\ fl[f].result = last_quotes[fl[f].ticker]
    /\ fl[g].status = "running" /\ fl[g].ticker # fl[f].ticker /\ fl[g].calls > 0

\* ---------------------------------------------------------------------- C3
\* C3: no provider GET is issued while the cooldown is active.
C3_NoCallInCooldown ==
  [][\A f \in Flows : IssuesCall(f) => ~rate_limited]_vars

\* ---------------------------------------------------------------------- C4
\* The tickers of the list without a fresh cache entry.
MissSet(tickers) == {t \in SeqSet(tickers) : ~Fresh(t)}

\* C4 as stated: a batch call with a non-empty miss set and no cooldown goes on
\* to its one GET.
C4_Original ==
  [][\A f \in Flows :
       (StartsBatch(f) /\ MissSet(fl'[f].tickers) # {} /\ ~rate_limited) =>
         fl'[f].pc = "b_fetch"]_vars

\* C4 amended: one fetch_quotes_batch call issues at most one provider GET:
\* exactly one, carrying exactly the cache-miss tickers, when the miss set is
\* non-empty, the cooldown is inactive and RAPIDAPI_KEY is set; none when every
\* ticker is a fresh cache hit, the cooldown is active or the key is missing;
\* a ticker with a fresh cache entry is never sent.
C4_OneBatchCall ==
  [][\A f \in Flows :
       /\ StartsBatch(f) =>
            IF MissSet(fl'[f].tickers) # {} /\ ~rate_limited /\ RAPIDAPI_KEY
            THEN /\ fl'[f].pc = "b_fetch" /\ fl'[f].calls = 0
                 /\ SeqSet(fl'[f].missing) = MissSet(fl'[f].tickers)
            ELSE fl'[f].pc = "done"
       /\ (fl[f].op = "batch" /\ IssuesCall(f)) =>
            /\ fl[f].pc = "b_fetch" /\ fl[f].calls = 0
            /\ fl'[f].pc # "b_fetch"
            /\ fl'[f].pc # "done" =>
                 fl'[f].calls = 1 /\ fl'[f].sent = fl[f].missing
       /\ (fl[f].op = "batch" /\ fl[f].pc \in {"b_item", "b_db_set"}) =>
            /\ fl[f].calls = 1
            /\ fl'[f].pc \in {"b_item", "b_db_set", "done", "idle"}
            /\ fl'[f].pc \in {"b_item", "b_db_set"} =>
                 fl'[f].calls = 1 /\ fl'[f].sent = fl[f].sent]_vars

\* A batch whose GET carried one ticker while the other was a fresh hit.
C4_Witness ==
  \E f \in Flows :
    /\ fl[f].op = "batch" /\ fl[f].pc = "b_item" /\ fl[f].calls = 1
    /\ Len(fl[f].tickers) = 2 /\ Len(fl[f].sent) = 1
    /\ \E t \in SeqSet(fl[f].tickers) : Fresh(t) /\ t \notin SeqSet(fl[f].sent)

\* ---------------------------------------------------------------------- C5
\* C5: from the same cache, store and cooldown state and for the same answer
\* of the primary provider, fetch_quotes_batch gives a cache-miss ticker the
\* triple get_stock_price would return for it alone, whatever the other
\* providers answer.
C5_BatchEqualsSingle ==
  \A f \in Flows :
    fl[f].pc = "b_fetch" =>
      \A t \in SeqSet(fl[f].missing) : \A r1, r2, r3 \in Responses :
        BatchWould(t, r1) = GspWould(t, r1, r2, r3)

\* ---------------------------------------------------------------------- C6
\* At least one field of the triple is a number.
HasAny(q) == \E k \in 1..3 : q[k] # None

\* C6: a get_stock_price call that got past the cache and the cooldown gate
\* accepts a provider answer with at least one field; it then replaces the
\* cache entry of its ticker by that answer, stamped with the current time and
\* so fresh, then replaces the store row by it and returns it, so that at its
\* return the cache entry and the store row both hold the answer.
C6_LiveQuoteWins ==
  [][\A f \in Flows :
       LET t == fl[f].ticker
           p3 == fl[f].triple
       IN
       /\ (fl[f].op = "gsp" /\ fl[f].pc \in Providers) =>
            \A q \in ProviderQuotes :
              HasAny(q) =>
                Attempt(fl[f].pc, "ok", <<q>>, fl[f].cached, last_quotes[t])
                  = [act |-> "accept", value |-> q, cooldown |-> FALSE]
       /\ (fl[f].op = "gsp" /\ fl[f].pc \in Providers /\ fl'[f].pc = "cache_set") =>
            fl'[f].triple \in ProviderQuotes /\ fl'[f].ticker = t
       /\ (fl[f].pc = "cache_set" /\ fl'[f].pc = "db_set") =>
            /\ PRICE_CACHE'[t] = <<now, p3>>
            /\ fl'[f].triple = p3 /\ fl'[f].ticker = t
            /\ \A u \in Tickers \ {t} : PRICE_CACHE'[u] = PRICE_CACHE[u]
       /\ (fl[f].pc = "db_set" /\ fl'[f].pc = "done") =>
            /\ fl'[f].status = "returned" /\ fl'[f].result = p3
            /\ last_quotes'[t] = p3
            /\ PRICE_CACHE'[t] # Absent /\ PRICE_CACHE'[t][2] = p3
            /\ \A u \in Tickers \ {t} : last_quotes'[u] = last_quotes[u]]_vars

\* The call has put the live quote over a cache entry and is about to put it
\* over a store row that holds another quote.
C6_Witness ==
  \E f \in Flows :
    /\ fl[f].op = "gsp" /\ fl[f].pc = "db_set" /\ HasAny(fl[f].triple)
    /\ PRICE_CACHE[fl[f].ticker] = <<now, fl[f].triple>>
    /\ now > PRICE_TTL_SECONDS
    /\ last_quotes[fl[f].ticker] # Absent
    /\ last_quotes[fl[f].ticker] # fl[f].triple

C8_FreshHit ==
  [][\A f \in Flows :
       LET t == fl'[f].ticker IN
       (StartsGsp(f) /\ Fresh(t)) =>
         /\ fl'[f].pc = "done" /\ fl'[f].status = "returned"
         /\ fl'[f].result = PRICE_CACHE[t][2]
         /\ PRICE_CACHE' = PRICE_CACHE
         /\ last_quotes' = last_quotes
         /\ RATE_LIMIT_UNTIL' = RATE_LIMIT_UNTIL]_vars

\* A hit on an entry aged exactly the TTL, during a cooldown.
C8_Witness ==
  \E f \in Flows :
    LET t == fl[f].ticker IN
    /\ fl[f].pc = "done" /\ fl[f].op = "gsp" /\ rate_limited
    /\ PRICE_CACHE[t] # Absent /\ now - PRICE_CACHE[t][1] = PRICE_TTL_SECONDS
    /\ fl[f].result = PRICE_CACHE[t][2]

\* ---------------------------------------------------------------------- C9
\* C9: the mapping fetch_quotes_batch returns has an entry for every ticker it
\* was asked for.
C9_EveryTickerHasEntry ==
  \A f \in Flows :
    (fl[f].pc = "done" /\ fl[f].op = "batch" /\ fl[f].status = "returned") =>
      \A t \in SeqSet(fl[f].tickers) : fl[f].bresult[t] # Absent

\* --------------------------------------------------------------------- C10
\* C10: in the loop of fetch_quotes_batch, a missing ticker the response does
\* not hold, or holds with no field, gets the store quote if a row exists and
\* else the fully-absent triple, and its cache entry and store row stay as
\* they are.
C10_NoFieldFallsBack ==
  [][\A f \in Flows :
       (fl[f].op = "batch" /\ fl[f].pc = "b_item" /\ fl'[f] # fl[f]
          /\ fl'[f].pc # "idle") =>
         LET t == fl[f].missing[fl[f].i]
             q == fl[f].by_symbol[t]
         IN (q = Absent \/ ~HasAny(q)) =>
              /\ PRICE_CACHE'[t] = PRICE_CACHE[t]
              /\ last_quotes'[t] = last_quotes[t]
              /\ fl'[f].pc # "b_db_set"
              /\ fl'[f].bresult[t] = StoreOrAbsent(t)]_vars

\* --------------------------------------------------------------------- C11
\* A step that restarts the process: a flow that had called is idle again
\* (a restart of a process that served no call changes nothing).
RestartStep == \E f \in Flows : fl[f].pc # "idle" /\ fl'[f].pc = "idle"

\* The answers of a provider call that fails.
Failures == {r \in Responses : r.kind # "ok"}

\* The process has just started: no flow has called yet.
JustStarted == \A f \in Flows : fl[f].pc = "idle"

\* C11: a store row changes only when a call saves a quote for its ticker, and
\* then holds that quote, so it always is the last quote saved; a restart
\* empties the cache and resets the deadline to 0 but leaves every row as it
\* is; and in a process that has just started, a get_stock_price or
\* fetch_quotes_batch call whose provider calls all fail returns the row of a
\* ticker that has one.
C11_StoreSurvivesRestart ==
  /\ [][/\ \A t \in Tickers :
             last_quotes'[t] # last_quotes[t] =>
               \E f \in Flows :
                 /\ fl[f].pc \in {"db_set", "b_db_set"}
                 /\ fl'[f] # fl[f]
                 /\ t = (IF fl[f].op = "gsp" THEN fl[f].ticker
                                             ELSE fl[f].missing[fl[f].i])
                 /\ last_quotes'[t] = fl[f].triple
        /\ RestartStep =>
             /\ last_quotes' = last_quotes
             /\ \A t \in Tickers : PRICE_CACHE'[t] = Absent
             /\ RATE_LIMIT_UNTIL' = 0
             /\ JustStarted']_vars
  /\ [](JustStarted =>
          \A t \in Tickers :
            last_quotes[t] # Absent =>
              \A r1, r2, r3 \in Failures :
                /\ GspWould(t, r1, r2, r3) = last_quotes[t]
                /\ BatchWould(t, r1) = last_quotes[t])

\* After a restart (the cache is empty, the deadline 0, a row is there) a
\* call met a failing provider and returned the row saved before the restart.
C11_Witness ==
  \E f \in Flows :
    /\ \A t \in Tickers : PRICE_CACHE[t] = Absent
    /\ RATE_LIMIT_UNTIL = 0
    /\ fl[f].pc = "done" /\ fl[f].op = "gsp" /\ fl[f].status = "returned"
    /\ fl[f].http \in {"http", "net", "malformed"}
    /\ last_quotes[fl[f].ticker] # Absent
    /\ HasAny(last_quotes[fl[f].ticker])
    /\ fl[f].result = last_quotes[fl[f].ticker]

\* --------------------------------------------------------------------- C12
\* The quote the valuation uses for holding h: the triple of quotes_map, all
\* fields absent when the map has no entry for the ticker.
QuoteOf(f, h) ==
  IF fl[f].bresult[h.ticker] = Absent THEN NoneTriple ELSE fl[f].bresult[h.ticker]

\* Whether the daily P/L of a holding with quote q is known, and what it is.
DailyKnown(q) == q[3] # None \/ (q[1] # None /\ q[2] # None)
DailyPL(q, qty) == IF q[3] # None THEN q[3] * qty ELSE (q[1] - q[2]) * qty

\* The sum of the known daily P/L of the first n holdings.
RECURSIVE SumDaily(_, _)
SumDaily(f, n) ==
  IF n = 0 THEN 0
  ELSE LET h == fl[f].holdings[n]
           q == QuoteOf(f, h)
       IN SumDaily(f, n - 1) + (IF DailyKnown(q) THEN DailyPL(q, h.quantity) ELSE 0)

\* The holdings calculate_portfolio_summary has gone through.
Summed(f) ==
  CASE fl[f].pc = "s_row" -> fl[f].i - 1
    [] fl[f].pc = "done" -> Len(fl[f].holdings)
    [] OTHER -> 0

\* C12: the row of every holding reports as daily P/L change * quantity when
\* change is present, else (current_price - previous_close) * quantity when
\* both are present, else None (unknown, which is not the number 0); the
\* daily_profit of the portfolio summary is the sum of the daily P/L of the
\* holdings for which it is known.
C12_DailyProfit ==
  \A f \in Flows :
    fl[f].op = "view" =>
      /\ \A k \in 1..Len(fl[f].rows) :
           LET h == fl[f].holdings[k]
               q == QuoteOf(f, h)
               pd == fl[f].rows[k].profit_daily
           IN /\ q[3] # None => pd = <<q[3] * h.quantity>>
              /\ (q[3] = None /\ q[1] # None /\ q[2] # None) =>
                   pd = <<(q[1] - q[2]) * h.quantity>>
              /\ (q[3] = None /\ (q[1] = None \/ q[2] = None)) =>
                   pd = Absent /\ pd # <<0>>
      /\ fl[f].summary # Absent =>
           fl[f].summary.daily_profit = SumDaily(f, Summed(f))

\* A finished page with a row whose daily P/L is unknown and a row whose
\* daily P/L is the number 0 because the change is 0 while the price is
\* missing.
C12_Witness ==
  \E f \in Flows :
    /\ fl[f].op = "view" /\ fl[f].pc = "done" /\ Len(fl[f].rows) = 2
    /\ fl[f].rows[1].profit_daily = Absent
    /\ fl[f].rows[2].profit_daily = <<0>>
    /\ fl[f].rows[2].current_price = None
    /\ QuoteOf(f, fl[f].holdings[2])[3] = 0

\* --------------------------------------------------------------------- C13
\* The price the claim names for a holding with quote q bought at cost.
Effective(q, cost) ==
  IF q[1] # None THEN q[1] ELSE IF q[2] # None THEN q[2] ELSE cost

RECURSIVE SumValue(_, _)
SumValue(f, n) ==
  IF n = 0 THEN 0
  ELSE LET h == fl[f].holdings[n] IN
       SumValue(f, n - 1) + Effective(QuoteOf(f, h), h.purchase_price) * h.quantity

RECURSIVE SumProfit(_, _)
SumProfit(f, n) ==
  IF n = 0 THEN 0
  ELSE LET h == fl[f].holdings[n] IN
       SumProfit(f, n - 1)
         + (Effective(QuoteOf(f, h), h.purchase_price) - h.purchase_price) * h.quantity

\* C13: for every holding and every combination of present and absent quote
\* fields, the value of the position is the effective price (current_price if
\* present, else previous_close if present, else purchase_price) times the
\* quantity and its total profit is (effective price - purchase_price) times
\* the quantity, 0 when price and previous close are both absent; the
\* positions_value and total_profit of the summary are the sums of these.
C13_EffectivePrice ==
  \A f \in Flows :
    fl[f].op = "view" =>
      /\ \A k \in 1..Len(fl[f].rows) :
           LET h == fl[f].holdings[k]
               q == QuoteOf(f, h)
               row == fl[f].rows[k]
           IN /\ row.value = Effective(q, h.purchase_price) * h.quantity
              /\ row.profit_total =
                   (Effective(q, h.purchase_price) - h.purchase_price) * h.quantity
              /\ (q[1] = None /\ q[2] = None) =>
                   row.profit_total = 0 /\ row.value = h.purchase_price * h.quantity
      /\ fl[f].summary # Absent =>
           /\ fl[f].summary.positions_value = SumValue(f, Summed(f))
           /\ fl[f].summary.total_profit = SumProfit(f, Summed(f))
      /\ fl[f].pc = "done" =>
           fl[f].summary.net_worth =
             (IF fl[f].cash = None THEN 0 ELSE fl[f].cash) + SumValue(f, Len(fl[f].holdings))

\* A finished page with a holding valued at its previous close, at a loss,
\* and a holding without price or previous close valued at its purchase
\* price.
C13_Witness ==
  \E f \in Flows :
    /\ fl[f].op = "view" /\ fl[f].pc = "done" /\ Len(fl[f].rows) = 2
    /\ fl[f].rows[1].current_price = None /\ fl[f].rows[1].prev_close = 1
    /\ fl[f].rows[1].profit_total < 0
    /\ fl[f].rows[2].current_price = None /\ fl[f].rows[2].prev_close = None
    /\ fl[f].rows[2].profit_total = 0
    /\ fl[f].summary.total_profit = fl[f].rows[1].profit_total

\* --------------------------------------------------------------------- C14
\* C14: the resolvers, which read the cache through _cache_get, see the triple
\* of a ticker exactly when it has an entry with now - inserted_at <=
\* PRICE_TTL_SECONDS, and see nothing otherwise; the lookup leaves PRICE_CACHE
\* as it is, and an entry, stale or not, changes only when _cache_set
\* overwrites it with a triple stamped now (or the process restarts).
C14_CacheGetTtl ==
  [][/\ \A f \in Flows :
          StartsGsp(f) =>
            LET t == fl'[f].ticker IN
            /\ PRICE_CACHE' = PRICE_CACHE
            /\ Fresh(t) =>
                 fl'[f].pc = "done" /\ fl'[f].result = PRICE_CACHE[t][2]
            /\ ~Fresh(t) =>
                 /\ fl'[f].cached = Absent
                 /\ IF rate_limited
                    THEN fl'[f].pc = "done" /\ fl'[f].result = StoreOrAbsent(t)
                    ELSE fl'[f].pc \in Providers
     /\ \A f \in Flows :
          StartsBatch(f) =>
            /\ PRICE_CACHE' = PRICE_CACHE
            /\ \A t \in SeqSet(fl'[f].tickers) :
                 /\ Fresh(t) => fl'[f].bresult[t] = PRICE_CACHE[t][2]
                 /\ (~Fresh(t) /\ fl'[f].pc # "done") =>
                      fl'[f].bresult[t] = Absent /\ t \in SeqSet(fl'[f].missing)
                 /\ (~Fresh(t) /\ fl'[f].pc = "done") =>
                      fl'[f].bresult[t] = last_quotes[t]
     /\ \A t \in Tickers :
          PRICE_CACHE'[t] # PRICE_CACHE[t] =>
            \/ RestartStep
            \/ \E f \in Flows :
                 /\ fl'[f] # fl[f]
                 /\ \/ fl[f].pc = "cache_set" /\ fl[f].ticker = t
                          /\ PRICE_CACHE'[t] = <<now, fl[f].triple>>
                    \/ fl[f].pc = "b_item" /\ fl[f].missing[fl[f].i] = t
                          /\ PRICE_CACHE'[t] = <<now, fl[f].by_symbol[t]>>]_vars

\* An entry older than the TTL is still in the cache while a call for its
\* ticker, which did not see it, is at a provider.
C14_Witness ==
  \E f \in Flows :
    LET t == fl[f].ticker IN
    /\ fl[f].op = "gsp" /\ fl[f].pc \in Providers /\ fl[f].calls = 0
    /\ PRICE_CACHE[t] # Absent
    /\ now - PRICE_CACHE[t][1] > PRICE_TTL_SECONDS
    /\ HasAny(PRICE_CACHE[t][2])

\* --------------------------------------------------------------------- C15
\* C15: a get_stock_price call that gets to its providers (no fresh entry, no
\* cooldown) and whose provider calls fail, with a 429 or any other error,
\* returns the cache entry of its ticker if there is one, stale as it is, else
\* the store row if there is one, else the fully-absent triple.
C15_FailureFallsBack ==
  \A t \in Tickers :
    (~Fresh(t) /\ ~rate_limited) =>
      \A r1, r2, r3 \in Failures :
        GspWould(t, r1, r2, r3) =
          IF PRICE_CACHE[t] # Absent THEN PRICE_CACHE[t][2] ELSE StoreOrAbsent(t)

\* --------------------------------------------------------------------- C16
\* C16: when the GET of fetch_quotes_batch fails, with a 429 or any other
\* error, the call returns at once; every cache-miss ticker gets its store row
\* if it has one and else the fully-absent triple, every cache-hit ticker
\* keeps its cached triple, no cache entry and no store row is written, and
\* the deadline becomes now + RATE_LIMIT_COOLDOWN if the failure was a 429 and
\* stays as it is otherwise.
C16_BatchFailure ==
  [][\A f \in Flows :
       (fl[f].pc = "b_fetch" /\ fl'[f] # fl[f] /\ fl'[f].pc # "idle"
          /\ fl'[f].http # "ok") =>
         /\ fl'[f].pc = "done" /\ fl'[f].status = "returned"
         /\ \A t \in SeqSet(fl[f].missing) : fl'[f].bresult[t] = StoreOrAbsent(t)
         /\ \A t \in SeqSet(fl[f].tickers) \ SeqSet(fl[f].missing) :
              /\ Fresh(t)
              /\ fl'[f].bresult[t] = PRICE_CACHE[t][2]
         /\ PRICE_CACHE' = PRICE_CACHE
         /\ last_quotes' = last_quotes
         /\ RATE_LIMIT_UNTIL' =
              IF fl'[f].http = "429" THEN now + RATE_LIMIT_COOLDOWN
              ELSE RATE_LIMIT_UNTIL]_vars

\* A batch of two tickers ended by a 429: the fresh one kept its cached
\* triple, the stale one got its store row, the third case (no row) being
\* the all-None triple.
C16_Witness ==
  \E f \in Flows : \E t1, t2 \in Tickers :
    /\ fl[f].op = "batch" /\ fl[f].pc = "done" /\ fl[f].http = "429"
    /\ SeqSet(fl[f].tickers) = {t1, t2} /\ t1 # t2
    /\ Fresh(t1) /\ fl[f].bresult[t1] = PRICE_CACHE[t1][2]
    /\ ~Fresh(t2) /\ last_quotes[t2] # Absent
    /\ fl[f].bresult[t2] = last_quotes[t2]
    /\ rate_limited

\* --------------------------------------------------------------------- C17
\* The GETs a call has issued when it reaches a provider in the fixed order:
\* the public endpoint comes third with an API key and first without one.
Rank(provider) ==
  CASE provider = "primary" -> 0
    [] provider = "secondary" -> 1
    [] OTHER -> IF RAPIDAPI_KEY THEN 2 ELSE 0

\* C17: a get_stock_price call that gets to its providers starts with the
\* primary one when RAPIDAPI_KEY is set (the public one otherwise) and
\* contacts them in the order primary, secondary, public, each at most once;
\* an answer with at least one field is accepted from any of them, partial or
\* not, and after it the call issues no further GET and returns that triple;
\* the call goes on to the next provider only when the one before it was
\* called and yielded no field.
C17_ProviderOrder ==
  [][\A f \in Flows :
       /\ (StartsGsp(f) /\ fl'[f].pc # "done") =>
            /\ fl'[f].pc = (IF RAPIDAPI_KEY THEN "primary" ELSE "public")
            /\ fl'[f].calls = 0
       /\ (fl[f].op = "gsp" /\ fl[f].pc \in Providers) =>
            /\ fl[f].calls = Rank(fl[f].pc)
            /\ \A payload \in Payloads :
                 LET o == Attempt(fl[f].pc, "ok", payload, fl[f].cached,
                                  last_quotes[fl[f].ticker])
                 IN /\ (payload # <<>> /\ HasAny(payload[1])) =>
                         o.act = "accept" /\ o.value = payload[1]
                    /\ o.act = "next" => (payload = <<>> \/ ~HasAny(payload[1]))
       /\ (fl[f].op = "gsp" /\ IssuesCall(f)) =>
            /\ fl'[f].pc \in {"cache_set", "done", NextProvider(fl[f].pc)}
            /\ fl'[f].pc \in Providers =>
                 /\ fl[f].pc # "public"
                 /\ fl'[f].calls = Rank(fl'[f].pc)
            /\ fl'[f].pc = "cache_set" =>
                 fl'[f].http = "ok" /\ fl'[f].triple \in ProviderQuotes
       /\ (fl[f].op = "gsp" /\ fl[f].pc \in {"cache_set", "db_set"}
             /\ fl'[f] # fl[f] /\ fl'[f].pc # "idle") =>
            /\ fl'[f].pc \in {"db_set", "done"}
            /\ fl'[f].pc = "done" => fl'[f].result = fl[f].triple]_vars

\* The secondary provider's answer with a price and nothing else has been
\* accepted after the primary one yielded no field.
C17_Witness ==
  \E f \in Flows :
    /\ fl[f].op = "gsp" /\ fl[f].pc = "cache_set" /\ fl[f].calls = 2
    /\ fl[f].triple = <<1, None, None>>

\* --------------------------------------------------------------------- C18
\* This step is a GET of flow f that was answered with HTTP 429.
Got429(f) == IssuesCall(f) /\ fl'[f].http = "429"

\* C18: within one process lifetime RATE_LIMIT_UNTIL changes only in a step
\* in which a provider GET was answered with HTTP 429: the start of a call
\* (cache hit, store fallback), a GET that succeeds, finds nothing or fails
\* with another HTTP status, a network error or a body that does not parse,
\* and the cache and store writes all leave it as it is.
C18_DeadlineOnlyOn429 ==
  [][/\ RATE_LIMIT_UNTIL' # RATE_LIMIT_UNTIL => \E f \in Flows : Got429(f)
     /\ \A f \in Flows :
          (IssuesCall(f) /\ fl'[f].http \in {"ok", "http", "net", "malformed"}) =>
            RATE_LIMIT_UNTIL' = RATE_LIMIT_UNTIL]_vars

\* A call ended by a network error while a cooldown set 60 s earlier is
\* still running, untouched.
C18_Witness ==
  \E f \in Flows :
    /\ fl[f].pc = "done" /\ fl[f].http = "net"
    /\ now < RATE_LIMIT_UNTIL /\ RATE_LIMIT_UNTIL < now + RATE_LIMIT_COOLDOWN

\* --------------------------------------------------------------------- C19
\* C19: every GET answered with 429 sets the one deadline to now +
\* RATE_LIMIT_COOLDOWN whatever it was, also when a cooldown is running; the
\* clock never goes back and, within one process lifetime, neither does the
\* deadline; and a call without a fresh cache entry is turned away by the
\* cooldown gate exactly when now < RATE_LIMIT_UNTIL.
C19_DeadlineReset ==
  [][/\ \A f \in Flows : Got429(f) => RATE_LIMIT_UNTIL' = now + RATE_LIMIT_COOLDOWN
     /\ now' >= now
     /\ RATE_LIMIT_UNTIL' >= RATE_LIMIT_UNTIL
     /\ \A f \in Flows :
          (StartsGsp(f) /\ ~Fresh(fl'[f].ticker)) =>
            (fl'[f].pc = "done" <=> now < RATE_LIMIT_UNTIL)
     /\ \A f \in Flows :
          (StartsBatch(f) /\ MissSet(fl'[f].tickers) # {} /\ RAPIDAPI_KEY) =>
            (fl'[f].pc = "done" <=> now < RATE_LIMIT_UNTIL)]_vars

\* The secondary provider has answered 429 one minute after the primary one
\* did: the call sits at the public provider, two GETs behind it, with a
\* full window ahead although the first window was half over.
C19_Witness ==
  \E f \in Flows :
    /\ fl[f].op = "gsp" /\ fl[f].pc = "public" /\ fl[f].calls = 2
    /\ fl[f].http = "429"
    /\ now = RATE_LIMIT_COOLDOWN \div 2
    /\ RATE_LIMIT_UNTIL = now + RATE_LIMIT_COOLDOWN
    /\ \A t \in Tickers : PRICE_CACHE[t] = Absent /\ last_quotes[t] = Absent

\* --------------------------------------------------------------------- C20
\* C20 as stated: once the cooldown a 429 engaged is over, a
\* fetch_quotes_batch call with a cache miss goes on to its GET.
C20_Original ==
  [][\A f \in Flows :
       (StartsBatch(f) /\ RATE_LIMIT_UNTIL > 0 /\ now >= RATE_LIMIT_UNTIL
          /\ MissSet(fl'[f].tickers) # {}) =>
         fl'[f].pc = "b_fetch"]_vars

\* C20 amended: the cooldown always ends: the deadline is never more than
\* RATE_LIMIT_COOLDOWN ahead of the clock and the time left to it grows only
\* in a step that receives a 429, so that once the clock has advanced
\* RATE_LIMIT_COOLDOWN past the last 429 the cooldown is inactive; the next
\* get_stock_price call with a cache miss then goes on to a provider GET, and
\* so does the next fetch_quotes_batch call with a cache miss when
\* RAPIDAPI_KEY is set (without the key it issues none).
C20_CooldownEnds ==
  /\ [](RATE_LIMIT_UNTIL <= now + RATE_LIMIT_COOLDOWN)
  /\ [][/\ (\A f \in Flows : ~Got429(f)) =>
             RATE_LIMIT_UNTIL' - now' <= RATE_LIMIT_UNTIL - now
        /\ \A f \in Flows :
             (StartsGsp(f) /\ now >= RATE_LIMIT_UNTIL /\ ~Fresh(fl'[f].ticker)) =>
               fl'[f].pc \in Providers
        /\ \A f \in Flows :
             (StartsBatch(f) /\ now >= RATE_LIMIT_UNTIL
                /\ MissSet(fl'[f].tickers) # {}) =>
               fl'[f].pc = (IF RAPIDAPI_KEY THEN "b_fetch" ELSE "done")]_vars

\* A call is at a provider, no GET issued yet, at the very second the
\* deadline of an earlier 429 is reached.
C20_Witness ==
  \E f \in Flows :
    /\ fl[f].pc \in Providers \cup {"b_fetch"} /\ fl[f].calls = 0
    /\ RATE_LIMIT_UNTIL > 0 /\ now = RATE_LIMIT_UNTIL

\* --------------------------------------------------------------------- C21
\* Flow f has returned a quote with a field that its own GET produced.
Fetched(f) ==
  /\ fl[f].pc = "done" /\ fl[f].op = "gsp" /\ fl[f].status = "returned"
  /\ fl[f].http = "ok" /\ HasField(fl[f].result)

\* C21: when two get_stock_price calls for one ticker both miss the cache and
\* both fetch, whatever the interleaving: each write stores the writer's own
\* triple whole (the cache entry and the store row are replaced, never
\* patched field by field), each call returns the triple it accepted, and
\* once both have returned the ticker's cache entry and its store row each
\* hold the triple of one of the two calls.
C21_DuplicateOnly ==
  /\ [][\A f \in Flows :
          /\ (fl[f].pc = "cache_set" /\ fl'[f] # fl[f]) =>
               /\ PRICE_CACHE'[fl[f].ticker] = <<now, fl[f].triple>>
               /\ fl'[f].triple = fl[f].triple
          /\ (fl[f].pc = "db_set" /\ fl'[f] # fl[f]) =>
               /\ last_quotes'[fl[f].ticker] = fl[f].triple
               /\ fl'[f].result = fl[f].triple]_vars
  /\ [](\A f, g \in Flows :
          (f # g /\ Fetched(f) /\ Fetched(g) /\ fl[f].ticker = fl[g].ticker) =>
            /\ PRICE_CACHE[fl[f].ticker] # Absent
            /\ PRICE_CACHE[fl[f].ticker][2] \in {fl[f].result, fl[g].result}
            /\ last_quotes[fl[f].ticker] \in {fl[f].result, fl[g].result})

\* Both calls have fetched; one got the price alone and the other the
\* previous close alone; the cache holds the one triple and the store the
\* other, and neither holds the mix (1, 1, None).
C21_Witness ==
  /\ Fetched("f1") /\ Fetched("f2")
  /\ fl["f1"].ticker = fl["f2"].ticker
  /\ fl["f1"].result = <<1, None, None>>
  /\ fl["f2"].result = <<None, 1, None>>
  /\ PRICE_CACHE[fl["f1"].ticker] # Absent
  /\ PRICE_CACHE[fl["f1"].ticker][2] = fl["f2"].result
  /\ last_quotes[fl["f1"].ticker] = fl["f1"].result

\* --------------------------------------------------------------------- C22
\* C22: once every call has returned (no call stands between its cache write
\* and its store write), whenever a ticker has a cache entry, fresh or stale,
\* the store row of that ticker holds the same triple.
C22_CacheStoreAgree ==
  Quiet =>
    \A t \in Tickers :
      PRICE_CACHE[t] # Absent => last_quotes[t] = PRICE_CACHE[t][2]

\* --------------------------------------------------------------------- C23
\* C23: no cache entry and no store row ever holds the triple whose three
\* fields are all absent.
C23_NoAllAbsentWritten ==
  \A t \in Tickers :
    /\ PRICE_CACHE[t] # Absent => PRICE_CACHE[t][2] # NoneTriple
    /\ last_quotes[t] # NoneTriple

====
